---- MODULE Spec2Model ----
(***************************************************************************)
(* Model of ModelRegistry (src/python/tts_server.py): the per-identifier   *)
(* lifecycle records, the single threading.Lock, and the request handlers  *)
(* that call get_model, get_all_models, load_model and unload_model, or    *)
(* run a generation request, concurrently.  Every `with self._lock:` block is an acquire step        *)
(* followed by a body step that ends with the release; the code between    *)
(* two blocks (memory sampling, the external load call, garbage            *)
(* collection) runs with the lock free.                                    *)
(***************************************************************************)
EXTENDS Integers, Sequences, FiniteSets, TLC

\* ---------------------------------------------------------------- bounds
NumThreads == 2        \* concurrent request handlers
MaxCalls == 3          \* registry calls issued in one run
MaxLiveCalls == 2      \* the same, in the runs checked for liveness
MaxResults == 2        \* results a generate call of tts_generate yields

Threads == 1..NumThreads

\* What get_memory_mb() can return, in MB, and what time.time() - start_time
\* can be, in seconds.  No branch of the registry reads either value.
MemSamples == {100}
LoadTimes == {3}

\* --------------------------------------------------------- identifiers
\* CLONE_MODELS + CONTROL_MODELS + [DESIGN_MODEL], abstracted to one name,
\* and one identifier outside the catalog.
Catalog == {"A"}
ModelIds == Catalog \cup {"B"}

\* ModelState
UNLOADED == "unloaded"
LOADING == "loading"
LOADED == "loaded"
UNLOADING == "unloading"
ERROR == "error"
ModelState == {UNLOADED, LOADING, LOADED, UNLOADING, ERROR}

\* Optional[...] values: None is the empty tuple, a present value v is <<v>>.
None == <<>>
Some(v) == <<v>>

\* Variant of ModelInfo that names every record after the catalog's model.
ModelInfoCatalogId(model_id) ==
    [model_id |-> "A",
     state |-> UNLOADED,
     memory_before_mb |-> None,
     memory_after_mb |-> None,
     memory_delta_mb |-> None,
     load_time_seconds |-> None,
     error_message |-> None,
     model_instance |-> None]

\* ModelInfo(model_id=model_id): the dataclass defaults.
ModelInfo(model_id) ==
    [model_id |-> model_id,
     state |-> UNLOADED,
     memory_before_mb |-> None,
     memory_after_mb |-> None,
     memory_delta_mb |-> None,
     load_time_seconds |-> None,
     error_message |-> None,
     model_instance |-> None]

\* Outcomes of the external mlx_audio load_model call: it returns a model,
\* raises RuntimeError, or raises an exception of another class.
OK == "ok"
RUNTIME_ERROR == "RuntimeError"
OTHER_ERROR == "OtherError"
VALUE_ERROR == "ValueError"
HTTP_400 == "HTTPException(400)"
ATTRIBUTE_ERROR == "AttributeError"
LoadOutcomes == {OK, RUNTIME_ERROR, OTHER_ERROR}

\* str(e) of the exception the external load call raised.
StrOfError(outcome) == "load failed"

\* The object the external load call returns for model_id.
LoadedModel(model_id) == Some(model_id)

\* ----------------------------------------------------------------------
\* tts_generate: the command-line process
\* ----------------------------------------------------------------------

\* The subcommands of the argument parser.
Modes == {"clone", "control", "design"}

OutputPaths == {"out.wav", "dir/out.wav"}

\* A parsed command line: the mode, --model, the argument with default ""
\* (--ref-text of clone, --instruct of control and design) and --output.
CliArgs ==
    [mode : Modes, model : {"Base"}, optional : {"", "x"},
     output : OutputPaths]

\* The model each mode loads: design ignores the command line.
ModelName(args) ==
    IF args.mode = "design" THEN "VoiceDesign" ELSE args.model

\* The keyword arguments each mode passes to the generate call.
Kwargs(args) ==
    CASE args.mode = "clone" ->
            {"text", "ref_audio"}
                \cup (IF args.optional # "" THEN {"ref_text"} ELSE {})
      [] args.mode = "control" ->
            {"text", "speaker", "language"}
                \cup (IF args.optional # "" THEN {"instruct"} ELSE {})
      [] args.mode = "design" -> {"text", "language", "instruct"}

\* The message of the second and third progress line of each mode.
PreparingMessage(mode) ==
    CASE mode = "clone" -> "Processing reference audio..."
      [] mode = "control" -> "Preparing generation parameters..."
      [] mode = "design" -> "Preparing voice design parameters..."

GeneratingMessage(mode) ==
    IF mode = "design"
    THEN "Generating audio with custom voice design..."
    ELSE "Generating audio..."

\* report_progress: one more line "PROGRESS: <percent> <message>" on stderr.
report_progress(stderr, percent, message) ==
    Append(stderr,
           [tag |-> "PROGRESS:", percent |-> percent, message |-> message])

\* print(f"ERROR: {str(e)}")
ErrorLine(msg) == <<"ERROR:", msg>>

\* print(args.output)
PathLine(output) == <<output>>

\* Messages of the exceptions the external calls raise.
LOAD_FAILED == "load failed"
GENERATE_FAILED == "generate failed"
SAVE_FAILED == "save failed"
NO_AUDIO == "No audio generated"

\* The output file: not there, left incomplete by a failed write, or saved.
FileStates == {"absent", "partial", "saved"}

\* The process with the command line parsed, about to enter main's try.
Invoked(args) ==
    [pc |-> "main", args |-> args, model |-> None, kwargs |-> {},
     results |-> None, exc |-> None, stdout |-> <<>>, stderr |-> <<>>,
     file |-> "absent", status |-> None]

\* The process has not been started.
NotInvoked ==
    [Invoked([mode |-> "clone", model |-> "Base", optional |-> "",
              output |-> "out.wav"]) EXCEPT !.pc = "off"]

VARIABLES
    models,      \* self._models: identifier -> ModelInfo
    lock,        \* self._lock: None, or <<t>> for the thread that holds it
    pc,          \* position of each request handler
    frame,       \* locals of the call each handler is running
    ret,         \* what each handler's last call returned or raised
    calls,       \* number of calls issued so far
    cli          \* the tts_generate process: position, arguments, output

vars == <<models, lock, pc, frame, ret, calls, cli>>

\* Locals of a call: the operation, model_id, memory_before, memory_after,
\* load_time, model, error_msg, and how the external load call will end.
EmptyFrame ==
    [op |-> "none", model_id |-> "A", memory_before |-> None,
     memory_after |-> None, load_time |-> None, model |-> None,
     error_msg |-> None, outcome |-> "none"]

NewFrame(op, model_id) == [EmptyFrame EXCEPT !.op = op, !.model_id = model_id]

\* The last line a call wrote with logger.info / warning / error.
NO_LOG == ""
ALREADY_LOADED == "already loaded"
ALREADY_LOADING == "is already loading"
LOADING_MODEL == "Loading model"
LOADED_OK == "Model loaded successfully"
FAILED_TO_LOAD == "Failed to load model"
NOT_LOADED == "is not loaded"
UNLOADED_OK == "Model unloaded successfully"

\* Results of a call: the operation, what it returned or raised, and the last
\* line it logged.  A ModelInfo is returned by reference: val holds the
\* identifiers of the records in models that the caller now refers to.
NoResult == [op |-> "none", kind |-> "nothing", val |-> {}, log |-> NO_LOG]
RefResult(op, model_id, log) ==
    [op |-> op, kind |-> "ref", val |-> {model_id}, log |-> log]
RefsResult(op, ids) == [op |-> op, kind |-> "refs", val |-> ids, log |-> NO_LOG]
NoneResult(op) == [op |-> op, kind |-> "none", val |-> {}, log |-> NO_LOG]
RaiseResult(op, exc, log) ==
    [op |-> op, kind |-> "raise", val |-> {exc}, log |-> log]
\* GenerateResponse(output_path, success=True) of a generation request that
\* invoked the model of model_id.
GeneratedResult(model_id) ==
    [op |-> "generate", kind |-> "generated", val |-> {model_id},
     log |-> "Generated audio"]

\* ModelRegistry.__init__
Init ==
    /\ models = [id \in Catalog |-> ModelInfo(id)]
    /\ lock = None
    /\ pc = [t \in Threads |-> "idle"]
    /\ frame = [t \in Threads |-> EmptyFrame]
    /\ ret = [t \in Threads |-> NoResult]
    /\ calls = 0
    /\ cli = NotInvoked

\* A request handler calls one of the registry's operations; the result of
\* its previous call is dropped.
IssueCall(t, budget) ==
    /\ pc[t] = "idle"
    /\ calls < budget
    /\ \/ \E op \in {"get_model", "load_model", "unload_model", "generate"},
             id \in ModelIds :
             /\ pc' = [pc EXCEPT ![t] = op \o "_wait"]
             /\ frame' = [frame EXCEPT ![t] = NewFrame(op, id)]
       \/ /\ pc' = [pc EXCEPT ![t] = "get_all_models_wait"]
          /\ frame' = [frame EXCEPT ![t] =
                         [EmptyFrame EXCEPT !.op = "get_all_models"]]
    /\ ret' = [ret EXCEPT ![t] = NoResult]
    /\ calls' = calls + 1
    /\ UNCHANGED <<models, lock, cli>>

Call(t) == IssueCall(t, MaxCalls)

\* `with self._lock:` entry of every lock section.
WaitPcs == {"get_model_wait", "get_all_models_wait", "load_model_wait",
            "load_ok_wait", "load_err_wait", "unload_model_wait",
            "unload_clear_wait", "unload_final_wait", "generate_wait"}

SectionOf(p) ==
    CASE p = "get_model_wait" -> "get_model_cs"
      [] p = "get_all_models_wait" -> "get_all_models_cs"
      [] p = "load_model_wait" -> "load_model_cs"
      [] p = "load_ok_wait" -> "load_ok_cs"
      [] p = "load_err_wait" -> "load_err_cs"
      [] p = "unload_model_wait" -> "unload_model_cs"
      [] p = "unload_clear_wait" -> "unload_clear_cs"
      [] p = "unload_final_wait" -> "unload_final_cs"
      [] p = "generate_wait" -> "generate_cs"

\* Variant of Acquire that enters the section without waiting for the lock.
AcquireUnguarded(t) ==
    /\ pc[t] \in WaitPcs
    /\ lock' = Some(t)
    /\ pc' = [pc EXCEPT ![t] = SectionOf(pc[t])]
    /\ UNCHANGED <<models, frame, ret, calls, cli>>

Acquire(t) ==
    /\ pc[t] \in WaitPcs
    /\ lock = None
    /\ lock' = Some(t)
    /\ pc' = [pc EXCEPT ![t] = SectionOf(pc[t])]
    /\ UNCHANGED <<models, frame, ret, calls, cli>>

\* Return from a call: the frame is dropped.
Return(t, result) ==
    /\ pc' = [pc EXCEPT ![t] = "idle"]
    /\ frame' = [frame EXCEPT ![t] = EmptyFrame]
    /\ ret' = [ret EXCEPT ![t] = result]

\* get_model: self._models.get(model_id)
GetModel(t) ==
    /\ pc[t] = "get_model_cs"
    /\ lock = Some(t)
    /\ lock' = None
    /\ Return(t, IF frame[t].model_id \in DOMAIN models
                 THEN RefResult("get_model", frame[t].model_id, NO_LOG)
                 ELSE NoneResult("get_model"))
    /\ UNCHANGED <<models, calls, cli>>

\* get_all_models: list(self._models.values())
GetAllModels(t) ==
    /\ pc[t] = "get_all_models_cs"
    /\ lock = Some(t)
    /\ lock' = None
    /\ Return(t, RefsResult("get_all_models", DOMAIN models))
    /\ UNCHANGED <<models, calls, cli>>

\* Variant of InsertIfMissing that rebuilds the dictionary around the new
\* record, dropping the others.
InsertReplacing(ms, model_id) ==
    IF model_id \in DOMAIN ms
    THEN ms
    ELSE [id \in {model_id} |-> ModelInfo(model_id)]

\* load_model, lines 127-128: a missing identifier gets a fresh record.
InsertIfMissing(ms, model_id) ==
    IF model_id \in DOMAIN ms
    THEN ms
    ELSE [id \in DOMAIN ms \cup {model_id} |->
            IF id = model_id THEN ModelInfo(model_id) ELSE ms[id]]

\* Variants of StartsLoad that miss one of the two early returns.
StartsLoadUnlessLoading(info) == info.state # LOADING
StartsLoadUnlessLoaded(info) == info.state # LOADED

\* load_model, lines 133-139: a LOADED or LOADING record is returned as is.
StartsLoad(info) == info.state \notin {LOADED, LOADING}

\* load_model, lines 142-143
MarkLoading(info) == [info EXCEPT !.state = LOADING, !.error_message = None]

\* Variant of MarkLoaded that forgets line 160, the state assignment.
MarkLoadedKeepsState(info, model, memory_before, memory_after, load_time) ==
    [info EXCEPT !.model_instance = model,
                 !.memory_before_mb = memory_before,
                 !.memory_after_mb = memory_after,
                 !.memory_delta_mb = Some(memory_after[1] - memory_before[1]),
                 !.load_time_seconds = load_time]

\* load_model, lines 159-165
MarkLoaded(info, model, memory_before, memory_after, load_time) ==
    [info EXCEPT !.state = LOADED,
                 !.model_instance = model,
                 !.memory_before_mb = memory_before,
                 !.memory_after_mb = memory_after,
                 !.memory_delta_mb = Some(memory_after[1] - memory_before[1]),
                 !.load_time_seconds = load_time]

\* load_model, lines 178-180
MarkError(info, error_msg) ==
    [info EXCEPT !.state = ERROR, !.error_message = error_msg]

\* Variant of LoadCheck that starts the load without leaving the lock
\* section (the external call made inside `with self._lock:`).
LoadCheckHoldsLock(t) ==
    /\ pc[t] = "load_model_cs"
    /\ lock = Some(t)
    /\ LET model_id == frame[t].model_id
           ms == InsertIfMissing(models, model_id)
           info == ms[model_id]
       IN  IF info.state \notin {LOADED, LOADING}
           THEN /\ models' = [ms EXCEPT ![model_id] = MarkLoading(info)]
                /\ \E m \in MemSamples, o \in LoadOutcomes :
                      frame' = [frame EXCEPT ![t].memory_before = Some(m),
                                             ![t].outcome = o]
                /\ pc' = [pc EXCEPT ![t] = "load_ext"]
                /\ UNCHANGED <<ret, lock>>
           ELSE /\ models' = ms
                /\ lock' = None
                /\ Return(t, RefResult("load_model", model_id,
                                       IF info.state = LOADED
                                       THEN ALREADY_LOADED
                                       ELSE ALREADY_LOADING))
    /\ UNCHANGED <<calls, cli>>

\* load_model, lines 126-153: the first lock section and, when the load
\* starts, the memory sample before it and the entry into the external load
\* call.  The sample is local to the call, so taking it in the same step as
\* the release changes nothing another thread can see.  How the external call
\* will end is the environment's choice, fixed when the call is entered.
LoadCheck(t) ==
    /\ pc[t] = "load_model_cs"
    /\ lock = Some(t)
    /\ lock' = None
    /\ LET model_id == frame[t].model_id
           ms == InsertIfMissing(models, model_id)
           info == ms[model_id]
       IN  IF StartsLoad(info)
           THEN /\ models' = [ms EXCEPT ![model_id] = MarkLoading(info)]
                /\ \E m \in MemSamples, o \in LoadOutcomes :
                      frame' = [frame EXCEPT ![t].memory_before = Some(m),
                                             ![t].outcome = o]
                /\ pc' = [pc EXCEPT ![t] = "load_ext"]
                /\ UNCHANGED ret
           ELSE /\ models' = ms
                /\ Return(t, RefResult("load_model", model_id,
                                       IF info.state = LOADED
                                       THEN ALREADY_LOADED
                                       ELSE ALREADY_LOADING))
    /\ UNCHANGED <<calls, cli>>

\* load_model, lines 153-156 and 173-175: the external load call ends.  Only
\* RuntimeError is caught; any other exception leaves load_model at once.
LoadExternal(t) ==
    /\ pc[t] = "load_ext"
    /\ \/ /\ frame[t].outcome = OK
          /\ \E m \in MemSamples, d \in LoadTimes :
                frame' = [frame EXCEPT
                            ![t].model = LoadedModel(frame[t].model_id),
                            ![t].load_time = Some(d),
                            ![t].memory_after = Some(m)]
          /\ pc' = [pc EXCEPT ![t] = "load_ok_wait"]
          /\ UNCHANGED ret
       \/ /\ frame[t].outcome = RUNTIME_ERROR
          /\ frame' = [frame EXCEPT
                         ![t].error_msg = Some(StrOfError(frame[t].outcome))]
          /\ pc' = [pc EXCEPT ![t] = "load_err_wait"]
          /\ UNCHANGED ret
       \/ /\ frame[t].outcome = OTHER_ERROR
          /\ Return(t, RaiseResult("load_model", OTHER_ERROR, LOADING_MODEL))
    /\ UNCHANGED <<models, lock, calls, cli>>

\* Variant of LoadOk that writes the loaded model into every record.
LoadOkEveryRecord(t) ==
    /\ pc[t] = "load_ok_cs"
    /\ lock = Some(t)
    /\ lock' = None
    /\ models' = [id \in DOMAIN models |->
                     MarkLoaded(models[id], frame[t].model,
                                frame[t].memory_before,
                                frame[t].memory_after,
                                frame[t].load_time)]
    /\ Return(t, RefResult("load_model", frame[t].model_id, LOADED_OK))
    /\ UNCHANGED <<calls, cli>>

\* load_model, lines 158-171: record the loaded model and return.
LoadOk(t) ==
    /\ pc[t] = "load_ok_cs"
    /\ lock = Some(t)
    /\ lock' = None
    /\ LET model_id == frame[t].model_id
       IN  models' = [models EXCEPT ![model_id] =
                         MarkLoaded(models[model_id], frame[t].model,
                                    frame[t].memory_before,
                                    frame[t].memory_after,
                                    frame[t].load_time)]
    /\ Return(t, RefResult("load_model", frame[t].model_id, LOADED_OK))
    /\ UNCHANGED <<calls, cli>>

\* load_model, lines 177-182: record the failure and re-raise.
LoadErr(t) ==
    /\ pc[t] = "load_err_cs"
    /\ lock = Some(t)
    /\ lock' = None
    /\ LET model_id == frame[t].model_id
       IN  models' = [models EXCEPT ![model_id] =
                         MarkError(models[model_id], frame[t].error_msg)]
    /\ Return(t, RaiseResult("load_model", RUNTIME_ERROR, FAILED_TO_LOAD))
    /\ UNCHANGED <<calls, cli>>

\* Variant of StartsUnload that returns early only for an UNLOADED record.
StartsUnloadUnlessUnloaded(info) == info.state # UNLOADED

\* unload_model, line 192: only a LOADED record is unloaded.
StartsUnload(info) == info.state = LOADED

\* unload_model, line 196
MarkUnloading(info) == [info EXCEPT !.state = UNLOADING]

\* Variant of ClearInstance that forgets to drop the reference.
ClearInstanceKeeps(info) == info

\* unload_model, line 205
ClearInstance(info) == [info EXCEPT !.model_instance = None]

\* unload_model, lines 219-223
MarkUnloaded(info, memory_before, memory_after) ==
    [info EXCEPT !.state = UNLOADED,
                 !.memory_before_mb = memory_before,
                 !.memory_after_mb = memory_after,
                 !.memory_delta_mb = Some(memory_after[1] - memory_before[1])]

\* Variant of UnloadCheck that registers a missing identifier as load_model
\* does, instead of raising ValueError.
UnloadCheckRegisters(t) ==
    /\ pc[t] = "unload_model_cs"
    /\ lock = Some(t)
    /\ lock' = None
    /\ LET model_id == frame[t].model_id
           ms == InsertIfMissing(models, model_id)
       IN  IF ms[model_id].state = LOADED
           THEN /\ models' = [ms EXCEPT ![model_id] =
                                 MarkUnloading(ms[model_id])]
                /\ \E m \in MemSamples :
                      frame' = [frame EXCEPT ![t].memory_before = Some(m)]
                /\ pc' = [pc EXCEPT ![t] = "unload_clear_wait"]
                /\ UNCHANGED ret
           ELSE /\ Return(t, RefResult("unload_model", model_id, NOT_LOADED))
                /\ models' = ms
    /\ UNCHANGED <<calls, cli>>

\* unload_model, lines 186-200: the first lock section and, when the unload
\* starts, the memory sample before the reclamation (local to the call).
UnloadCheck(t) ==
    /\ pc[t] = "unload_model_cs"
    /\ lock = Some(t)
    /\ lock' = None
    /\ LET model_id == frame[t].model_id
       IN  IF model_id \notin DOMAIN models
           THEN /\ Return(t, RaiseResult("unload_model", VALUE_ERROR, NO_LOG))
                /\ UNCHANGED models
           ELSE IF StartsUnload(models[model_id])
           THEN /\ models' = [models EXCEPT ![model_id] =
                                 MarkUnloading(models[model_id])]
                /\ \E m \in MemSamples :
                      frame' = [frame EXCEPT ![t].memory_before = Some(m)]
                /\ pc' = [pc EXCEPT ![t] = "unload_clear_wait"]
                /\ UNCHANGED ret
           ELSE /\ Return(t, RefResult("unload_model", model_id, NOT_LOADED))
                /\ UNCHANGED models
    /\ UNCHANGED <<calls, cli>>

\* Variant of UnloadClear that leaves its lock section without releasing the
\* lock.
UnloadClearKeepsLock(t) ==
    /\ pc[t] = "unload_clear_cs"
    /\ lock = Some(t)
    /\ LET model_id == frame[t].model_id
       IN  models' = [models EXCEPT ![model_id] =
                         ClearInstance(models[model_id])]
    /\ pc' = [pc EXCEPT ![t] = "unload_gc"]
    /\ UNCHANGED <<lock, frame, ret, calls, cli>>

\* unload_model, lines 203-205: drop the registry's reference to the model.
UnloadClear(t) ==
    /\ pc[t] = "unload_clear_cs"
    /\ lock = Some(t)
    /\ lock' = None
    /\ LET model_id == frame[t].model_id
       IN  models' = [models EXCEPT ![model_id] =
                         ClearInstance(models[model_id])]
    /\ pc' = [pc EXCEPT ![t] = "unload_gc"]
    /\ UNCHANGED <<frame, ret, calls, cli>>

\* unload_model, lines 208-216: gc.collect(), mx.clear_cache(), then the
\* memory sample after the reclamation.
UnloadReclaim(t) ==
    /\ pc[t] = "unload_gc"
    /\ \E m \in MemSamples :
          frame' = [frame EXCEPT ![t].memory_after = Some(m)]
    /\ pc' = [pc EXCEPT ![t] = "unload_final_wait"]
    /\ UNCHANGED <<models, lock, ret, calls, cli>>

\* unload_model, lines 218-228: record the result and return.
UnloadFinal(t) ==
    /\ pc[t] = "unload_final_cs"
    /\ lock = Some(t)
    /\ lock' = None
    /\ LET model_id == frame[t].model_id
       IN  models' = [models EXCEPT ![model_id] =
                         MarkUnloaded(models[model_id],
                                      frame[t].memory_before,
                                      frame[t].memory_after)]
    /\ Return(t, RefResult("unload_model", frame[t].model_id, UNLOADED_OK))
    /\ UNCHANGED <<calls, cli>>

\* generate_clone / generate_control / generate_design, the check of lines
\* 423, 456, 490: the request goes on only when get_model returned a record
\* and that record's state reads LOADED.
PassesLoadedCheck(ms, model_id) ==
    model_id \in DOMAIN ms /\ ms[model_id].state = LOADED

\* generate_*, lines 422, 455, 489: info = registry.get_model(model_id), the
\* lock section of get_model.  info is the registry's own ModelInfo object
\* (or None), so every later read of info.state and info.model_instance is a
\* read of models made without the lock.
GenerateGet(t) ==
    /\ pc[t] = "generate_cs"
    /\ lock = Some(t)
    /\ lock' = None
    /\ pc' = [pc EXCEPT ![t] = "generate_check"]
    /\ UNCHANGED <<models, frame, ret, calls, cli>>

\* generate_*, lines 423-424: reject with HTTP 400 unless the record is
\* there and LOADED.
GenerateCheck(t) ==
    /\ pc[t] = "generate_check"
    /\ IF PassesLoadedCheck(models, frame[t].model_id)
       THEN /\ pc' = [pc EXCEPT ![t] = "generate_use"]
            /\ UNCHANGED <<frame, ret>>
       ELSE Return(t, RaiseResult("generate", HTTP_400, NO_LOG))
    /\ UNCHANGED <<models, lock, calls, cli>>

\* generate_*, lines 426-449: model = info.model_instance, then
\* model.sample_rate and the generation.  A None instance raises
\* AttributeError at model.sample_rate; otherwise the model is invoked.
GenerateUse(t) ==
    /\ pc[t] = "generate_use"
    /\ LET model == models[frame[t].model_id].model_instance
       IN  IF model = None
           THEN Return(t, RaiseResult("generate", ATTRIBUTE_ERROR, NO_LOG))
           ELSE Return(t, GeneratedResult(model[1]))
    /\ UNCHANGED <<models, lock, calls, cli>>

\* unload_model_endpoint, lines 387-405: the response built from what
\* registry.unload_model returned or raised.  The only exception unload_model
\* raises is ValueError("Unknown model: <id>"); info is the returned record.
UnloadModelResponse(model_id, result, ms) ==
    IF result.kind = "raise"
    THEN [model_id |-> model_id, state |-> "error",
          error |-> Some("Unknown model: " \o model_id)]
    ELSE [model_id |-> model_id, state |-> ms[model_id].state,
          error |-> ms[model_id].error_message]

\* One step of a call that is under way (everything but issuing a call).
Proceed(t) ==
    \/ Acquire(t)
    \/ GetModel(t)
    \/ GetAllModels(t)
    \/ LoadCheck(t)
    \/ LoadExternal(t)
    \/ LoadOk(t)
    \/ LoadErr(t)
    \/ UnloadCheck(t)
    \/ UnloadClear(t)
    \/ UnloadReclaim(t)
    \/ UnloadFinal(t)
    \/ GenerateGet(t)
    \/ GenerateCheck(t)
    \/ GenerateUse(t)

Next ==
    \E t \in Threads :
        \/ Call(t)
        \/ Proceed(t)

Spec == Init /\ [][Next]_vars

\* The runs checked for liveness: threads are scheduled fairly, a free lock
\* is eventually taken by a waiting thread, and the external calls return or
\* raise.  Issuing a call is never forced.
LiveCall(t) == IssueCall(t, MaxLiveCalls)

LiveNext ==
    \E t \in Threads :
        \/ LiveCall(t)
        \/ Proceed(t)

FairSpec ==
    Init /\ [][LiveNext]_vars /\ \A t \in Threads : WF_vars(Proceed(t))

\* ----------------------------------------------------------------------
\* tts_generate: one run of the process
\* ----------------------------------------------------------------------

registry == <<models, lock, pc, frame, ret, calls>>

CliInit ==
    /\ models = [id \in Catalog |-> ModelInfo(id)]
    /\ lock = None
    /\ pc = [t \in Threads |-> "idle"]
    /\ frame = [t \in Threads |-> EmptyFrame]
    /\ ret = [t \in Threads |-> NoResult]
    /\ calls = 0
    /\ \E args \in CliArgs : cli = Invoked(args)

\* An exception leaves run_<mode>: control goes to main's except clause.
Raise(c, msg) == [c EXCEPT !.exc = Some(msg), !.pc = "except"]

\* main dispatches on args.mode; run_<mode> reports progress 5.
Main ==
    /\ cli.pc = "main"
    /\ cli.args.mode \in Modes
    /\ cli' = [cli EXCEPT
                 !.stderr = report_progress(cli.stderr, 5, "Loading model..."),
                 !.pc = "load_model"]
    /\ UNCHANGED registry

\* model = load_model(...); sample_rate = model.sample_rate
RunLoadModel ==
    /\ cli.pc = "load_model"
    /\ \/ cli' = [cli EXCEPT !.model = Some(ModelName(cli.args)),
                             !.pc = "prepare"]
       \/ cli' = Raise(cli, LOAD_FAILED)
    /\ UNCHANGED registry

\* Progress 20, the keyword arguments, progress 30.
RunPrepare ==
    /\ cli.pc = "prepare"
    /\ cli' = [cli EXCEPT
                 !.stderr = report_progress(
                               report_progress(cli.stderr, 20,
                                   PreparingMessage(cli.args.mode)),
                               30, GeneratingMessage(cli.args.mode)),
                 !.kwargs = Kwargs(cli.args),
                 !.pc = "generate"]
    /\ UNCHANGED registry

\* Variant of NoResults that never finds the result list empty.
NoResultsNever(n) == FALSE

\* `if not results:` for a list of n results
NoResults(n) == n = 0

\* results = list(model.generate...(**kwargs)); an empty list raises
\* RuntimeError, otherwise progress 80.
RunGenerate ==
    /\ cli.pc = "generate"
    /\ \/ cli' = Raise(cli, GENERATE_FAILED)
       \/ \E n \in 0..MaxResults :
            IF NoResults(n)
            THEN cli' = Raise([cli EXCEPT !.results = Some(n)], NO_AUDIO)
            ELSE cli' = [cli EXCEPT
                           !.results = Some(n),
                           !.stderr = report_progress(cli.stderr, 80,
                                                      "Saving output..."),
                           !.pc = "save_audio"]
    /\ UNCHANGED registry

\* save_audio(results[0].audio, sample_rate, args.output): a failure leaves
\* no file (mkdir failed) or an incomplete one (the write failed).
RunSaveAudio ==
    /\ cli.pc = "save_audio"
    /\ \/ cli' = [cli EXCEPT !.file = "saved", !.pc = "complete"]
       \/ \E f \in {"absent", "partial"} :
            cli' = Raise([cli EXCEPT !.file = f], SAVE_FAILED)
    /\ UNCHANGED registry

\* report_progress(100, "Complete!")
RunComplete ==
    /\ cli.pc = "complete"
    /\ cli' = [cli EXCEPT
                 !.stderr = report_progress(cli.stderr, 100, "Complete!"),
                 !.pc = "print_output"]
    /\ UNCHANGED registry

\* print(args.output); main returns and the process exits with status 0.
RunPrintOutput ==
    /\ cli.pc = "print_output"
    /\ cli' = [cli EXCEPT
                 !.stdout = Append(cli.stdout, PathLine(cli.args.output)),
                 !.status = Some(0),
                 !.pc = "done"]
    /\ UNCHANGED registry

\* except Exception as e: print the error line, sys.exit(1).
MainExcept ==
    /\ cli.pc = "except"
    /\ cli' = [cli EXCEPT
                 !.stdout = Append(cli.stdout, ErrorLine(cli.exc[1])),
                 !.status = Some(1),
                 !.pc = "done"]
    /\ UNCHANGED registry

CliNext ==
    \/ Main
    \/ RunLoadModel
    \/ RunPrepare
    \/ RunGenerate
    \/ RunSaveAudio
    \/ RunComplete
    \/ RunPrintOutput
    \/ MainExcept

CliSpec == CliInit /\ [][CliNext]_vars

\* ======================================================================
\* Properties
\* ======================================================================

\* Thread t is inside the external load call for model_id.
InExternalLoad(t, model_id) ==
    pc[t] = "load_ext" /\ frame[t].model_id = model_id

\* Thread t is inside unload_model's reclamation (gc.collect, clear_cache).
InReclamation(t, model_id) ==
    pc[t] = "unload_gc" /\ frame[t].model_id = model_id

\* Thread t is inside a load_model or unload_model call for model_id.
InMutation(t, model_id) ==
    /\ pc[t] # "idle"
    /\ frame[t].op \in {"load_model", "unload_model"}
    /\ frame[t].model_id = model_id

\* The step is the body of t's lock section at position p.
SectionStep(t, p) == pc[t] = p /\ pc'[t] # p

\* C1: whenever the lock is free, every record has an instance if and only
\* if its state is Loaded.
C1_InstanceIffLoaded ==
    lock = None =>
        \A id \in DOMAIN models :
            (models[id].model_instance # None) <=> (models[id].state = LOADED)

\* The six transitions of the lifecycle.
LifecycleTransitions ==
    {<<UNLOADED, LOADING>>, <<ERROR, LOADING>>, <<LOADING, LOADED>>,
     <<LOADING, ERROR>>, <<LOADED, UNLOADING>>, <<UNLOADING, UNLOADED>>}

\* C2: every change of a record's state is one of the six lifecycle
\* transitions.
C2_OnlyLifecycleTransitions ==
    [][\A id \in DOMAIN models :
          models'[id].state # models[id].state =>
              <<models[id].state, models'[id].state>> \in LifecycleTransitions]_vars

\* C3: for no identifier are two external load calls, or an external load
\* call and an unload's reclamation, in progress at the same time.
C3_NoRaceOnModel ==
    \A t1, t2 \in Threads, id \in ModelIds :
        (t1 # t2 /\ InExternalLoad(t1, id)) =>
            ~(InExternalLoad(t2, id) \/ InReclamation(t2, id))

\* C4: whenever load_model leaves with the failure of the external load call,
\* the record is in state Error, carries the failure's message and has no
\* instance.
C4_LoadFailureRecorded ==
    [][\A t \in Threads :
          (pc[t] # "idle" /\ frame[t].op = "load_model"
              /\ ret'[t].kind = "raise") =>
              LET info == models'[frame[t].model_id]
              IN  /\ info.state = ERROR
                  /\ info.error_message = Some(StrOfError(frame[t].outcome))
                  /\ info.model_instance = None]_vars

\* C5: a load_model on an identifier for which no other load_model or
\* unload_model call is in progress is accepted (it enters the external load
\* call) unless the record is already Loaded, and when its external load
\* succeeds the record becomes Loaded.
C5_FreshLoadAccepted ==
    [][\A t \in Threads :
          LET id == frame[t].model_id
          IN  /\ (SectionStep(t, "load_model_cs")
                    /\ \A u \in Threads \ {t} : ~InMutation(u, id)) =>
                     (pc'[t] = "load_ext" \/ models'[id].state = LOADED)
              /\ SectionStep(t, "load_ok_cs") =>
                     models'[id].state = LOADED]_vars

\* Threads t and some other thread are both inside the external load call,
\* for different identifiers, and both calls will succeed.
ConcurrentLoads(t, id) ==
    /\ InExternalLoad(t, id)
    /\ frame[t].outcome = OK
    /\ \E u \in Threads \ {t} :
          /\ pc[u] = "load_ext"
          /\ frame[u].model_id # id
          /\ frame[u].outcome = OK

\* C6: two concurrent load_model calls for different identifiers whose
\* external loads succeed both return, each with its record Loaded.  (The
\* first return of t after ConcurrentLoads(t, id) is the return of that call,
\* and t is never forced to call again.)
C6_ConcurrentLoadsComplete ==
    \A t \in Threads :
        (\E id \in ModelIds : ConcurrentLoads(t, id)) ~>
            (/\ pc[t] = "idle"
             /\ ret[t].op = "load_model"
             /\ ret[t].kind = "ref"
             /\ ret[t].log = LOADED_OK
             /\ \A id \in ret[t].val : models[id].state = LOADED)

C6_Witness ==
    \E t \in Threads : ConcurrentLoads(t, "A")

\* C7: load_model on a Loaded record returns that record, does not enter the
\* external load call and changes no field of any record.
C7_LoadOnLoadedIsNoOp ==
    [][\A t \in Threads :
          LET id == frame[t].model_id
          IN  (SectionStep(t, "load_model_cs")
                  /\ id \in DOMAIN models
                  /\ models[id].state = LOADED) =>
                  /\ models' = models
                  /\ pc'[t] = "idle"
                  /\ ret'[t] = RefResult("load_model", id, ALREADY_LOADED)]_vars

C7_Witness ==
    \E t \in Threads :
        /\ pc[t] = "idle"
        /\ ret[t] = RefResult("load_model", "A", ALREADY_LOADED)
        /\ models["A"].state = LOADED
        /\ models["A"].load_time_seconds # None

\* C8: load_model on a Loading record returns at once with the record as it
\* is: it does not enter the external load call and does not wait.
C8_LoadOnLoadingReturns ==
    [][\A t \in Threads :
          LET id == frame[t].model_id
          IN  (SectionStep(t, "load_model_cs")
                  /\ id \in DOMAIN models
                  /\ models[id].state = LOADING) =>
                  /\ models' = models
                  /\ pc'[t] = "idle"
                  /\ ret'[t] = RefResult("load_model", id, ALREADY_LOADING)]_vars

C8_Witness ==
    \E t, u \in Threads :
        /\ pc[t] = "idle"
        /\ ret[t] = RefResult("load_model", "A", ALREADY_LOADING)
        /\ models["A"].state = LOADING
        /\ InExternalLoad(u, "A")

\* C9: unload_model on a registered record that is not Loaded returns that
\* record, starts no reclamation and changes no field of any record.
C9_UnloadOnNotLoadedIsNoOp ==
    [][\A t \in Threads :
          LET id == frame[t].model_id
          IN  (SectionStep(t, "unload_model_cs")
                  /\ id \in DOMAIN models
                  /\ models[id].state # LOADED) =>
                  /\ models' = models
                  /\ pc'[t] = "idle"
                  /\ ret'[t] = RefResult("unload_model", id, NOT_LOADED)]_vars

C9_Witness ==
    \E t \in Threads :
        /\ pc[t] = "idle"
        /\ ret[t] = RefResult("unload_model", "A", NOT_LOADED)
        /\ models["A"].state = ERROR

\* C10: what a caller holds after get_model or get_all_models is a copy: no
\* later step changes the records it reads through the returned value.
C10_GetReturnsSnapshot ==
    [][\A t \in Threads :
          (ret[t].op \in {"get_model", "get_all_models"} /\ ret'[t] = ret[t]) =>
              \A id \in ret[t].val : models'[id] = models[id]]_vars

\* C11: a generation request invokes the model only after its check found
\* the record Loaded (otherwise it is rejected with HTTP 400), and the
\* instance it uses after passing the check is present.
C11_GenerateUsesPresentInstance ==
    [][\A t \in Threads :
          LET id == frame[t].model_id
          IN  /\ (pc[t] = "generate_check" /\ pc'[t] # "generate_check") =>
                     IF PassesLoadedCheck(models, id)
                     THEN pc'[t] = "generate_use"
                     ELSE ret'[t] = RaiseResult("generate", HTTP_400, NO_LOG)
              /\ (pc[t] = "generate_use" /\ pc'[t] # "generate_use") =>
                     /\ models[id].model_instance # None
                     /\ ret'[t] = GeneratedResult(id)]_vars

\* C12: a thread inside the external load call or the reclamation does not
\* hold the lock, so a thread waiting to enter a lock section (for another
\* identifier or the same) can take the lock unless a third thread is inside
\* a lock section.
C12_LockFreeDuringExternalWork ==
    \A t \in Threads :
        pc[t] \in {"load_ext", "unload_gc"} =>
            /\ lock # Some(t)
            /\ \A u \in Threads \ {t} :
                  (pc[u] \in WaitPcs /\ lock \in {None, Some(t)}) =>
                      ENABLED Acquire(u)

C12_Witness ==
    \E t, u \in Threads :
        /\ InExternalLoad(t, "A")
        /\ frame[u].model_id = "B"
        /\ pc[u] = "load_model_cs"
        /\ lock = Some(u)

\* C13: under fair scheduling every call that is under way eventually
\* returns or raises.
C13_EveryCallReturns ==
    \A t \in Threads : (pc[t] # "idle") ~> (pc[t] = "idle")

C13_Witness ==
    \E t, u \in Threads :
        /\ t # u
        /\ pc[t] \in WaitPcs
        /\ lock = Some(u)

\* C14: load_model on an identifier that has no record is not rejected: it
\* adds a record with that identifier, which goes from its initial Unloaded
\* state to Loading as a catalog record does, enters the external load call,
\* and ends Loaded or Error; no other record changes.
C14_UnknownIdIsRegistered ==
    [][\A t \in Threads :
          LET id == frame[t].model_id
          IN  /\ (SectionStep(t, "load_model_cs") /\ id \notin DOMAIN models) =>
                     /\ DOMAIN models' = DOMAIN models \cup {id}
                     /\ models'[id] =
                            [model_id |-> id, state |-> LOADING,
                             memory_before_mb |-> None,
                             memory_after_mb |-> None,
                             memory_delta_mb |-> None,
                             load_time_seconds |-> None,
                             error_message |-> None,
                             model_instance |-> None]
                     /\ \A other \in DOMAIN models :
                            models'[other] = models[other]
                     /\ pc'[t] = "load_ext"
              /\ (SectionStep(t, "load_ok_cs") /\ id \notin Catalog) =>
                     /\ models'[id].state = LOADED
                     /\ models'[id].model_instance # None
                     /\ models'[id].model_id = id
              /\ (SectionStep(t, "load_err_cs") /\ id \notin Catalog) =>
                     /\ models'[id].state = ERROR
                     /\ models'[id].error_message # None
                     /\ models'[id].model_id = id]_vars

C14_Witness ==
    /\ "B" \notin Catalog
    /\ "B" \in DOMAIN models
    /\ models["B"].model_id = "B"
    /\ models["B"].state = LOADED

\* C15: unload_model on an identifier that has no record raises to its
\* caller, the unload endpoint answers with state "error" and a message,
\* and the registry is left as it was: no record is added or changed.
C15_UnloadUnknownFails ==
    [][\A t \in Threads :
          LET id == frame[t].model_id
          IN  (SectionStep(t, "unload_model_cs") /\ id \notin DOMAIN models) =>
                  /\ models' = models
                  /\ pc'[t] = "idle"
                  /\ ret'[t].kind = "raise"
                  /\ UnloadModelResponse(id, ret'[t], models').state = "error"
                  /\ UnloadModelResponse(id, ret'[t], models').error # None]_vars

C15_Witness ==
    \E t \in Threads :
        /\ pc[t] = "idle"
        /\ ret[t] = RaiseResult("unload_model", VALUE_ERROR, NO_LOG)
        /\ "B" \notin DOMAIN models

\* C16: the registry starts with exactly one record per catalog identifier,
\* Unloaded, with no instance, no memory samples, no load time and no error;
\* afterwards no record is ever removed and every record keeps its
\* identifier.
C16_RecordsNeverRemoved ==
    /\ DOMAIN models = Catalog
    /\ \A id \in Catalog :
          /\ models[id].model_id = id
          /\ models[id].state = UNLOADED
          /\ models[id].model_instance = None
          /\ models[id].memory_before_mb = None
          /\ models[id].memory_after_mb = None
          /\ models[id].memory_delta_mb = None
          /\ models[id].load_time_seconds = None
          /\ models[id].error_message = None
    /\ [][/\ DOMAIN models \subseteq DOMAIN models'
          /\ \A id \in DOMAIN models' : models'[id].model_id = id]_vars

C16_Witness ==
    /\ DOMAIN models = Catalog \cup {"B"}
    /\ models["A"].state = UNLOADED
    /\ models["A"].memory_delta_mb # None
    /\ models["B"].state = ERROR

\* C17: unload_model on a Loaded record first sets the state to Unloading
\* (the instance still there), then clears the instance in a lock section of
\* its own, then runs the reclamation without the lock, and when no other
\* call for the identifier has touched the record or is under way it ends
\* with the record Unloaded, no instance, and memory before, after and delta
\* all present.
C17_UnloadSequence ==
    [][\A t \in Threads :
          LET id == frame[t].model_id
          IN  /\ (SectionStep(t, "unload_model_cs")
                    /\ id \in DOMAIN models
                    /\ models[id].state = LOADED) =>
                     /\ models'[id].state = UNLOADING
                     /\ models'[id].model_instance = models[id].model_instance
                     /\ pc'[t] = "unload_clear_wait"
              /\ SectionStep(t, "unload_clear_cs") =>
                     /\ models'[id].model_instance = None
                     /\ models'[id].state = models[id].state
                     /\ pc'[t] = "unload_gc"
                     /\ lock' = None
              /\ (pc[t] = "unload_gc" /\ pc'[t] # "unload_gc") =>
                     /\ lock # Some(t)
                     /\ models' = models
                     /\ pc'[t] = "unload_final_wait"
              /\ (SectionStep(t, "unload_final_cs")
                    /\ models[id].state = UNLOADING
                    /\ \A u \in Threads \ {t} : ~InMutation(u, id)) =>
                     /\ models'[id].state = UNLOADED
                     /\ models'[id].model_instance = None
                     /\ models'[id].memory_before_mb # None
                     /\ models'[id].memory_after_mb # None
                     /\ models'[id].memory_delta_mb # None
                     /\ ret'[t] = RefResult("unload_model", id, UNLOADED_OK)]_vars

C17_Witness ==
    \E t \in Threads :
        /\ pc[t] = "idle"
        /\ ret[t] = RefResult("unload_model", "A", UNLOADED_OK)
        /\ \A u \in Threads \ {t} : ret[u] = NoResult /\ pc[u] = "idle"
        /\ models["A"].state = UNLOADED
        /\ models["A"].model_instance = None
        /\ models["A"].memory_delta_mb # None

\* The step completes thread t's load or unload attempt on model_id: the last
\* lock section of load_model (either outcome) or of unload_model.
CompletesAttempt(t, model_id) ==
    /\ frame[t].model_id = model_id
    /\ \/ SectionStep(t, "load_ok_cs")
       \/ SectionStep(t, "load_err_cs")
       \/ SectionStep(t, "unload_final_cs")

\* C18: when a load or unload attempt on an identifier completes, a failed
\* load included, the record's memory-before, memory-after and memory-delta
\* fields hold the samples that this attempt took.
C18_MemoryOfLatestAttempt ==
    [][\A t \in Threads :
          \A id \in DOMAIN models :
              CompletesAttempt(t, id) =>
                  /\ models'[id].memory_before_mb = frame[t].memory_before
                  /\ models'[id].memory_after_mb = frame[t].memory_after
                  /\ (frame[t].memory_after # None =>
                        models'[id].memory_delta_mb =
                            Some(frame[t].memory_after[1]
                                   - frame[t].memory_before[1]))]_vars

\* Positions inside a `with self._lock:` block.
LockSections == {SectionOf(p) : p \in WaitPcs}

\* C19: at most one handler is inside a lock-guarded section at any time,
\* that handler holds the lock, and every change of the registry (a write to
\* a field of a record, or the insertion of a record) is a step of the
\* handler that holds the lock, taken inside one of its lock sections.
C19_MutualExclusion ==
    /\ [](/\ Cardinality({t \in Threads : pc[t] \in LockSections}) <= 1
          /\ \A t \in Threads : pc[t] \in LockSections => lock = Some(t))
    /\ [][models' # models =>
            \E t \in Threads :
                /\ lock = Some(t)
                /\ pc[t] \in LockSections
                /\ pc'[t] # pc[t]
                /\ \A u \in Threads \ {t} : pc'[u] = pc[u]]_vars

C19_Witness ==
    \E t \in Threads, u \in Threads :
        /\ u # t
        /\ lock = Some(t)
        /\ pc[t] = "load_ok_cs"
        /\ pc[u] = "unload_model_wait"
        /\ frame[u].model_id = frame[t].model_id
        /\ models[frame[t].model_id].state = LOADING

\* The percents of the progress lines written so far, in order.
Percents(stderr) == [i \in 1..Len(stderr) |-> stderr[i].percent]

IsPrefix(s, q) ==
    /\ Len(s) <= Len(q)
    /\ \A i \in 1..Len(s) : s[i] = q[i]

Lines(out) == {out[i] : i \in 1..Len(out)}

\* C20: in every mode of tts_generate the progress lines carry the percents
\* 5, 20, 30, 80, 100 in this order; the output path is on stdout only when
\* the file has been saved and progress 100 has been written; when a step
\* has raised (an empty result list included, and then no file is saved)
\* the process ends with the line "ERROR: <message>" on stdout and status
\* 1; stdout never holds both the output path and an ERROR line.
C20_CliOutputProtocol ==
    LET path == PathLine(cli.args.output)
        errors == {l \in Lines(cli.stdout) : l[1] = "ERROR:"}
    IN  /\ IsPrefix(Percents(cli.stderr), <<5, 20, 30, 80, 100>>)
        /\ \A i \in 1..Len(cli.stderr) : cli.stderr[i].tag = "PROGRESS:"
        /\ path \in Lines(cli.stdout) =>
              /\ cli.file = "saved"
              /\ Percents(cli.stderr) = <<5, 20, 30, 80, 100>>
        /\ cli.exc # None => cli.pc \in {"except", "done"}
        /\ (cli.exc # None /\ cli.pc = "done") =>
              /\ cli.stdout = <<ErrorLine(cli.exc[1])>>
              /\ cli.status = Some(1)
        /\ (cli.exc = None /\ cli.pc = "done") =>
              /\ cli.stdout = <<path>>
              /\ cli.status = Some(0)
        /\ cli.results = Some(0) =>
              /\ cli.exc = Some(NO_AUDIO)
              /\ cli.file = "absent"
        /\ ~(path \in Lines(cli.stdout) /\ errors # {})
        /\ cli.pc # "done" => cli.stdout = <<>> /\ cli.status = None

C20_Witness ==
    /\ cli.pc = "done"
    /\ cli.args.mode = "design"
    /\ cli.results = Some(0)
    /\ cli.exc = Some(NO_AUDIO)
    /\ cli.file = "absent"
    /\ Percents(cli.stderr) = <<5, 20, 30>>
    /\ cli.stdout = <<ErrorLine(NO_AUDIO)>>
    /\ cli.status = Some(1)

\* The step is thread t's write of a successful load of model_id
\* (lines 158-165).
RecordsLoad(t, model_id) ==
    SectionStep(t, "load_ok_cs") /\ frame[t].model_id = model_id

\* C21: a record's load_time_seconds is written only by a Loading->Loaded
\* step, which sets it to the duration of that load; every other step
\* (unload_model, a failed load, a load that returns early, the get
\* operations) leaves it unchanged.
C21_LoadTimeOnlyAtLoaded ==
    [][\A id \in DOMAIN models :
          IF \E t \in Threads : RecordsLoad(t, id)
          THEN \A t \in Threads :
                  RecordsLoad(t, id) =>
                      /\ models[id].state = LOADING
                      /\ models'[id].state = LOADED
                      /\ models'[id].load_time_seconds = frame[t].load_time
          ELSE models'[id].load_time_seconds
                  = models[id].load_time_seconds]_vars

\* C22: in every reachable state a record carries an error message only
\* while its state is Error.
C22_ErrorMessageOnlyInError ==
    \A id \in DOMAIN models :
        models[id].error_message # None => models[id].state = ERROR

\* The record of model_id, or its absence, is the same after the step.
RecordUnchanged(model_id) ==
    /\ model_id \in DOMAIN models <=> model_id \in DOMAIN models'
    /\ model_id \in DOMAIN models => models'[model_id] = models[model_id]

\* C23: every step of load_model(X) or unload_model(X) leaves the record of
\* every other identifier as it was, and no step of get_model or
\* get_all_models changes any record.
C23_OtherRecordsUntouched ==
    [][\A t \in Threads :
          pc'[t] # pc[t] =>
              /\ frame[t].op \in {"load_model", "unload_model"} =>
                    \A y \in ModelIds \ {frame[t].model_id} :
                        RecordUnchanged(y)
              /\ frame[t].op \in {"get_model", "get_all_models"} =>
                    models' = models]_vars

C23_Witness ==
    \E t \in Threads, u \in Threads :
        /\ u # t
        /\ pc[t] = "idle"
        /\ ret[t] = RefResult("load_model", "B", LOADED_OK)
        /\ pc[u] = "unload_gc"
        /\ frame[u].model_id = "A"
        /\ models["A"].state = UNLOADING
        /\ models["A"].model_instance = None
        /\ models["B"].state = LOADED
====
